---- MODULE Spec2Model ----
(***************************************************************************)
(* OdooGuard backup.py: the timestamp codec (get_backup_name /            *)
(* parse_backup_timestamp), the retention engine (rotate_backups) and the  *)
(* main sequence (dump, copy filestore, create archive, rotate).           *)
(*                                                                         *)
(* File names are sequences of one-character strings.  An instant is a     *)
(* record with the fields of a Python datetime.                            *)
(***************************************************************************)
EXTENDS Integers, Sequences, FiniteSets, TLC

VARIABLES
    dir,        \* names of the files present in config.backup_dir
    db,         \* config.db_name
    clock,      \* the system clock (what datetime.now() returns)
    pc,         \* position of the process in main / rotate_backups
    files,      \* rotate_backups: sorted glob result (line 160)
    entries,    \* rotate_backups: parsed (f, ts) pairs (lines 165-171)
    now,        \* rotate_backups: evaluation instant (line 176)
    keep,       \* rotate_backups: keep set (lines 177-207)
    idx,        \* rotate_backups: position of the delete loop (line 210)
    attempted,  \* files on which unlink() was called in the current run
    failed,     \* files whose unlink() raised in the current run
    archive,    \* main: name of the archive created by create_zip, or <<>>
    zipTime,    \* main: the instant get_backup_name read from the clock
    run,        \* number of the current rotate_backups call
    startDir,   \* dir when the current run listed it
    prev,       \* record of the previous rotate_backups call
    cpc,        \* codec harness: position
    cDb,        \* codec harness: database name given to get_backup_name
    cInstant,   \* codec harness: instant read by get_backup_name
    cName,      \* codec harness: encoded name
    cOut        \* codec harness: result of parse_backup_timestamp

mainVars == <<dir, db, clock, pc, files, entries, now, keep, idx, attempted,
              failed, archive, zipTime, run, startDir, prev>>
codecVars == <<cpc, cDb, cInstant, cName, cOut>>
vars == <<dir, db, clock, pc, files, entries, now, keep, idx, attempted,
          failed, archive, zipTime, run, startDir, prev,
          cpc, cDb, cInstant, cName, cOut>>

----------------------------------------------------------------------------
(* Bounds of the model.                                                    *)

MaxFiles == 2
MaxRuns == 2

----------------------------------------------------------------------------
(* Characters and strings.                                                 *)

DigitChars == <<"0", "1", "2", "3", "4", "5", "6", "7", "8", "9">>

IsDigit(c) == \E i \in 1..10 : DigitChars[i] = c

DigitVal(c) == (CHOOSE i \in 1..10 : DigitChars[i] = c) - 1

\* Code point of a character of the alphabet (str comparison order).
Ord(c) ==
    IF IsDigit(c) THEN 48 + DigitVal(c)
    ELSE CASE c = " " -> 32
           [] c = "." -> 46
           [] c = "_" -> 95
           [] c = "a" -> 97
           [] c = "b" -> 98
           [] c = "e" -> 101
           [] c = "i" -> 105
           [] c = "k" -> 107
           [] c = "p" -> 112
           [] c = "s" -> 115
           [] c = "t" -> 116
           [] c = "x" -> 120
           [] c = "z" -> 122

\* The first index from i at which a and b differ, 0 when there is none
\* within the shorter of the two.
RECURSIVE FirstDiff(_, _, _)
FirstDiff(a, b, i) ==
    IF i > Len(a) \/ i > Len(b) THEN 0
    ELSE IF a[i] # b[i] THEN i
    ELSE FirstDiff(a, b, i + 1)

\* str < str: lexicographic by code point, a proper prefix first.
StrLess(a, b) ==
    LET k == FirstDiff(a, b, 1)
    IN  IF k = 0 THEN Len(a) < Len(b) ELSE Ord(a[k]) < Ord(b[k])

\* str.rfind(c), 1-based; 0 when absent.
RFind(s, c) ==
    IF \E i \in 1..Len(s) : s[i] = c
    THEN CHOOSE i \in 1..Len(s) : s[i] = c /\ \A j \in (i+1)..Len(s) : s[j] # c
    ELSE 0

\* str.find(c), 1-based; 0 when absent.
Find(s, c) ==
    IF \E i \in 1..Len(s) : s[i] = c
    THEN CHOOSE i \in 1..Len(s) : s[i] = c /\ \A j \in 1..(i-1) : s[j] # c
    ELSE 0

\* str.split(sep): the segments between the separators.
RECURSIVE Split(_, _)
Split(s, sep) ==
    LET k == Find(s, sep)
    IN  IF k = 0 THEN <<s>>
        ELSE <<SubSeq(s, 1, k - 1)>> \o Split(SubSeq(s, k + 1, Len(s)), sep)

\* Decimal digits of n >= 0, at least `width` of them (zero padded).
RECURSIVE Decimal(_, _)
Decimal(n, width) ==
    IF n < 10 /\ width <= 1 THEN <<DigitChars[n + 1]>>
    ELSE Decimal(n \div 10, width - 1) \o <<DigitChars[(n % 10) + 1]>>

\* int() of a string of digits.
RECURSIVE ToInt(_)
ToInt(s) ==
    IF s = <<>> THEN 0
    ELSE 10 * ToInt(SubSeq(s, 1, Len(s) - 1)) + DigitVal(s[Len(s)])

AllDigits(s) == \A i \in 1..Len(s) : IsDigit(s[i])

ZipExt == <<".", "z", "i", "p">>

----------------------------------------------------------------------------
(* datetime.                                                               *)

Dt(y, mo, d, h, mi, s, us) ==
    [year |-> y, month |-> mo, day |-> d, hour |-> h, minute |-> mi,
     second |-> s, microsecond |-> us]

\* The value None of parse_backup_timestamp (no datetime has year 0).
None == Dt(0, 0, 0, 0, 0, 0, 0)

IsLeap(y) == y % 4 = 0 /\ (y % 100 # 0 \/ y % 400 = 0)

DaysInMonth(y, mo) ==
    IF mo = 2 THEN (IF IsLeap(y) THEN 29 ELSE 28)
    ELSE IF mo \in {4, 6, 9, 11} THEN 30 ELSE 31

DaysBeforeYear(y) ==
    (y - 1) * 365 + (y - 1) \div 4 - (y - 1) \div 100 + (y - 1) \div 400

RECURSIVE DaysBeforeMonth(_, _)
DaysBeforeMonth(y, mo) ==
    IF mo = 1 THEN 0 ELSE DaysBeforeMonth(y, mo - 1) + DaysInMonth(y, mo - 1)

\* date.toordinal(): 0001-01-01 is day 1.
YmdToOrd(y, mo, d) == DaysBeforeYear(y) + DaysBeforeMonth(y, mo) + d

ToOrdinal(t) == YmdToOrd(t.year, t.month, t.day)

\* The year and month holding ordinal n.
YearOfOrd(n) ==
    LET guess == (n - 1) \div 365 + 1
    IN  CHOOSE y \in (guess - 7)..guess :
            DaysBeforeYear(y) < n /\ n <= DaysBeforeYear(y + 1)

MonthOfOrd(y, n) ==
    CHOOSE mo \in 1..12 :
        /\ DaysBeforeYear(y) + DaysBeforeMonth(y, mo) < n
        /\ n <= DaysBeforeYear(y) + DaysBeforeMonth(y, mo) + DaysInMonth(y, mo)

SecOfDay(t) == t.hour * 3600 + t.minute * 60 + t.second

\* The datetime at ordinal day n, second-of-day s, microsecond us.
FromOrdSec(n, s, us) ==
    LET y == YearOfOrd(n)
        mo == MonthOfOrd(y, n)
    IN  Dt(y, mo, n - DaysBeforeYear(y) - DaysBeforeMonth(y, mo),
           s \div 3600, (s % 3600) \div 60, s % 60, us)

\* datetime - timedelta(days=n)
MinusDays(t, n) == FromOrdSec(ToOrdinal(t) - n, SecOfDay(t), t.microsecond)

\* datetime + timedelta(days=n, seconds=s), 0 <= s < 86400
PlusDelta(t, n, s) ==
    LET total == SecOfDay(t) + s
    IN  FromOrdSec(ToOrdinal(t) + n + total \div 86400, total % 86400,
                   t.microsecond)

\* datetime comparison: a < b, a <= b.
DtLess(a, b) ==
    LET oa == ToOrdinal(a)
        ob == ToOrdinal(b)
    IN  \/ oa < ob
        \/ oa = ob /\ SecOfDay(a) < SecOfDay(b)
        \/ oa = ob /\ SecOfDay(a) = SecOfDay(b) /\ a.microsecond < b.microsecond

DtLeq(a, b) == a = b \/ DtLess(a, b)

\* datetime.replace(microsecond=0): what the "%S" resolution keeps.
WholeSecond(t) == [t EXCEPT !.microsecond = 0]

\* The Monday of ISO week 1 of year y (datetime._isoweek1monday).
IsoWeek1Monday(y) ==
    LET firstday == YmdToOrd(y, 1, 1)
        firstweekday == (firstday + 6) % 7
        week1monday == firstday - firstweekday
    IN  IF firstweekday > 3 THEN week1monday + 7 ELSE week1monday

\* <<isocalendar().year, isocalendar().week>>
IsoYearWeek(t) ==
    LET today == ToOrdinal(t)
        w1 == IsoWeek1Monday(t.year)
    IN  IF today < w1
        THEN <<t.year - 1, (today - IsoWeek1Monday(t.year - 1)) \div 7 + 1>>
        ELSE IF (today - w1) \div 7 >= 52 /\ today >= IsoWeek1Monday(t.year + 1)
        THEN <<t.year + 1, 1>>
        ELSE <<t.year, (today - w1) \div 7 + 1>>

----------------------------------------------------------------------------
(* strftime / strptime with the format "%Y%m%d_%H%M%S".                    *)

\* strftime: %Y is the year in decimal (the C library does not pad it),
\* the other fields are zero padded to two digits; microseconds are dropped.
Strftime(t) ==
    Decimal(t.year, 1) \o Decimal(t.month, 2) \o Decimal(t.day, 2) \o <<"_">>
    \o Decimal(t.hour, 2) \o Decimal(t.minute, 2) \o Decimal(t.second, 2)

\* The regular expressions strptime builds for the directives.
InRange(c, lo, hi) == IsDigit(c) /\ lo <= DigitVal(c) /\ DigitVal(c) <= hi

\* %m: 1[0-2]|0[1-9]|[1-9]
MatchMonth(x) ==
    \/ Len(x) = 2 /\ x[1] = "1" /\ InRange(x[2], 0, 2)
    \/ Len(x) = 2 /\ x[1] = "0" /\ InRange(x[2], 1, 9)
    \/ Len(x) = 1 /\ InRange(x[1], 1, 9)

\* %d: 3[0-1]|[1-2]\d|0[1-9]|[1-9]| [1-9]
MatchDay(x) ==
    \/ Len(x) = 2 /\ x[1] = "3" /\ InRange(x[2], 0, 1)
    \/ Len(x) = 2 /\ InRange(x[1], 1, 2) /\ IsDigit(x[2])
    \/ Len(x) = 2 /\ x[1] = "0" /\ InRange(x[2], 1, 9)
    \/ Len(x) = 1 /\ InRange(x[1], 1, 9)
    \/ Len(x) = 2 /\ x[1] = " " /\ InRange(x[2], 1, 9)

\* %H: 2[0-3]|[0-1]\d|\d
MatchHour(x) ==
    \/ Len(x) = 2 /\ x[1] = "2" /\ InRange(x[2], 0, 3)
    \/ Len(x) = 2 /\ InRange(x[1], 0, 1) /\ IsDigit(x[2])
    \/ Len(x) = 1 /\ IsDigit(x[1])

\* %M: [0-5]\d|\d
MatchMinute(x) ==
    \/ Len(x) = 2 /\ InRange(x[1], 0, 5) /\ IsDigit(x[2])
    \/ Len(x) = 1 /\ IsDigit(x[1])

\* %S: 6[0-1]|[0-5]\d|\d
MatchSecond(x) ==
    \/ Len(x) = 2 /\ x[1] = "6" /\ InRange(x[2], 0, 1)
    \/ Len(x) = 2 /\ InRange(x[1], 0, 5) /\ IsDigit(x[2])
    \/ Len(x) = 1 /\ IsDigit(x[1])

\* int() of a matched field (int() strips the blank %d accepts).
FieldVal(x) == IF x[1] = " " THEN ToInt(Tail(x)) ELSE ToInt(x)

\* Field widths in the order the regex engine tries them (longest first).
DateWidths == << <<2, 2>>, <<2, 1>>, <<1, 2>>, <<1, 1>> >>
TimeWidths == << <<2, 2, 2>>, <<2, 2, 1>>, <<2, 1, 2>>, <<2, 1, 1>>,
                 <<1, 2, 2>>, <<1, 2, 1>>, <<1, 1, 2>>, <<1, 1, 1>> >>

\* "%Y%m%d" against a segment: <<year, month, day>>, or <<>> on no match.
ParseDate(seg) ==
    LET r == SubSeq(seg, 5, Len(seg))
        Fits(w) == /\ w[1] + w[2] = Len(r)
                   /\ MatchMonth(SubSeq(r, 1, w[1]))
                   /\ MatchDay(SubSeq(r, w[1] + 1, Len(r)))
        cands == SelectSeq(DateWidths, Fits)
    IN  IF Len(seg) < 6 \/ ~AllDigits(SubSeq(seg, 1, 4)) \/ cands = <<>>
        THEN <<>>
        ELSE LET w == Head(cands)
             IN  <<ToInt(SubSeq(seg, 1, 4)),
                   FieldVal(SubSeq(r, 1, w[1])),
                   FieldVal(SubSeq(r, w[1] + 1, Len(r)))>>

\* "%H%M%S" against a segment: <<hour, minute, second>>, or <<>>.
ParseTime(seg) ==
    LET Fits(w) == /\ w[1] + w[2] + w[3] = Len(seg)
                   /\ MatchHour(SubSeq(seg, 1, w[1]))
                   /\ MatchMinute(SubSeq(seg, w[1] + 1, w[1] + w[2]))
                   /\ MatchSecond(SubSeq(seg, w[1] + w[2] + 1, Len(seg)))
        cands == SelectSeq(TimeWidths, Fits)
    IN  IF cands = <<>> THEN <<>>
        ELSE LET w == Head(cands)
             IN  <<FieldVal(SubSeq(seg, 1, w[1])),
                   FieldVal(SubSeq(seg, w[1] + 1, w[1] + w[2])),
                   FieldVal(SubSeq(seg, w[1] + w[2] + 1, Len(seg)))>>

\* datetime.strptime(ts_str, "%Y%m%d_%H%M%S"); None stands for ValueError.
\* The digit classes never match "_", so the literal matches the only "_".
Strptime(ts_str) ==
    LET k == Find(ts_str, "_")
        d == ParseDate(SubSeq(ts_str, 1, k - 1))
        t == ParseTime(SubSeq(ts_str, k + 1, Len(ts_str)))
    IN  IF k = 0 \/ d = <<>> \/ t = <<>> THEN None
        ELSE IF d[1] < 1 \/ d[3] > DaysInMonth(d[1], d[2]) \/ t[3] > 59
        THEN None
        ELSE Dt(d[1], d[2], d[3], t[1], t[2], t[3], 0)

----------------------------------------------------------------------------
(* HELPERS (lines 59-81).                                                  *)

\* Variant: the format "%Y%m%d", the time of day left out.
GetBackupNameDateOnly(db_name, t) ==
    db_name \o <<"_">> \o SubSeq(Strftime(t), 1, Len(Strftime(t)) - 7)

\* get_backup_name, with `t` the value datetime.now() returned.
GetBackupName(db_name, t) == db_name \o <<"_">> \o Strftime(t)

\* Path(filename).stem: the name without its last suffix.
Stem(filename) ==
    LET k == RFind(filename, ".")
    IN  IF 1 < k /\ k < Len(filename) THEN SubSeq(filename, 1, k - 1)
        ELSE filename

\* Variant: parts[1:3], right only for a name without "_".
ParseBackupTimestampFixedSegments(filename) ==
    LET parts == Split(Stem(filename), "_")
    IN  IF Len(parts) < 3 THEN None
        ELSE Strptime(parts[2] \o <<"_">> \o parts[3])

\* parse_backup_timestamp
ParseBackupTimestamp(filename) ==
    LET parts == Split(Stem(filename), "_")
        n == Len(parts)
    IN  IF n < 2 THEN None
        ELSE Strptime(parts[n - 1] \o <<"_">> \o parts[n])


----------------------------------------------------------------------------
(* ROTATION (lines 150-216).                                               *)

DailyDays == 7
WeeklyWeeks == 4
MonthlyDays == 90

\* backup_dir.glob(f"{db}_*.zip"): does `name` match the pattern of `d`?
GlobMatch(name, d) ==
    LET pre == d \o <<"_">>
    IN  /\ Len(name) >= Len(pre) + Len(ZipExt)
        /\ SubSeq(name, 1, Len(pre)) = pre
        /\ SubSeq(name, Len(name) - Len(ZipExt) + 1, Len(name)) = ZipExt

\* The orders in which glob may yield the files of S.
Listings(S) ==
    {q \in [1..Cardinality(S) -> S] :
        \A i, j \in 1..Cardinality(S) : i # j => q[i] # q[j]}

\* x put into the ascending sequence s.
RECURSIVE Insert(_, _)
Insert(x, s) ==
    IF s = <<>> THEN <<x>>
    ELSE IF StrLess(x, Head(s)) THEN <<x>> \o s
    ELSE <<Head(s)>> \o Insert(x, Tail(s))

\* Variant: the listing is used as glob yields it.
SortPathsOmitted(listing) == listing

\* sorted(...) of a listing of paths of one directory: ascending by name.
RECURSIVE SortPaths(_)
SortPaths(listing) ==
    IF listing = <<>> THEN <<>>
    ELSE Insert(Head(listing), SortPaths(Tail(listing)))

\* Lines 167-171: the pair appended for f when ts is a datetime.
EntryOf(f, ts) == IF ts = None THEN <<>> ELSE <<[f |-> f, ts |-> ts]>>

\* Lines 165-171: the (f, ts) pairs of the files whose name parses.
RECURSIVE Entries(_)
Entries(fs) ==
    IF fs = <<>> THEN <<>>
    ELSE EntryOf(Head(fs), ParseBackupTimestamp(Head(fs))) \o Entries(Tail(fs))

DailyCutoff(n) == MinusDays(n, DailyDays)
WeeklyCutoff(n) == MinusDays(n, 7 * WeeklyWeeks)
MonthlyCutoff(n) == MinusDays(n, MonthlyDays)

\* Variant: ts > daily_cutoff
InDailyStrict(ts, daily_cutoff) == DtLess(daily_cutoff, ts)

\* Line 182: ts >= daily_cutoff
InDaily(ts, daily_cutoff) == DtLeq(daily_cutoff, ts)

\* Line 189: weekly_cutoff <= ts < daily_cutoff
InWeekly(ts, weekly_cutoff, daily_cutoff) ==
    DtLeq(weekly_cutoff, ts) /\ DtLess(ts, daily_cutoff)

\* Variant: ts < weekly_cutoff, the lower bound forgotten.
InMonthlyUnbounded(ts, monthly_cutoff, weekly_cutoff) == DtLess(ts, weekly_cutoff)

\* Line 201: monthly_cutoff <= ts < weekly_cutoff
InMonthly(ts, monthly_cutoff, weekly_cutoff) ==
    DtLeq(monthly_cutoff, ts) /\ DtLess(ts, weekly_cutoff)

\* Line 190 and line 202: the bucket keys.
WeeklyKey(ts) == IsoYearWeek(ts)
MonthlyKey(ts) == <<ts.year, ts.month>>

\* Variant: ts < weekly[key][1], the oldest entry of the week wins.
WeeklyTakesOlder(d, key, ts) == key \notin DOMAIN d \/ DtLess(ts, d[key].ts)

\* Line 191 and line 203: does the entry with timestamp ts take the slot
\* `key` of the dict d?
WeeklyTakes(d, key, ts) == key \notin DOMAIN d \/ DtLess(d[key].ts, ts)
MonthlyTakes(d, key, ts) == key \notin DOMAIN d \/ DtLess(d[key].ts, ts)

\* Lines 187-192: the dict `weekly` after the first i entries.
RECURSIVE WeeklyDict(_, _, _, _)
WeeklyDict(es, i, weekly_cutoff, daily_cutoff) ==
    IF i = 0 THEN <<>>
    ELSE LET d == WeeklyDict(es, i - 1, weekly_cutoff, daily_cutoff)
             e == es[i]
         IN  IF /\ InWeekly(e.ts, weekly_cutoff, daily_cutoff)
                /\ WeeklyTakes(d, WeeklyKey(e.ts), e.ts)
             THEN (WeeklyKey(e.ts) :> e) @@ d
             ELSE d

\* Lines 199-204: the dict `monthly` after the first i entries.
RECURSIVE MonthlyDict(_, _, _, _)
MonthlyDict(es, i, monthly_cutoff, weekly_cutoff) ==
    IF i = 0 THEN <<>>
    ELSE LET d == MonthlyDict(es, i - 1, monthly_cutoff, weekly_cutoff)
             e == es[i]
         IN  IF /\ InMonthly(e.ts, monthly_cutoff, weekly_cutoff)
                /\ MonthlyTakes(d, MonthlyKey(e.ts), e.ts)
             THEN (MonthlyKey(e.ts) :> e) @@ d
             ELSE d

\* Lines 194-195 and 206-207: the paths held by a dict's values.
DictPaths(d) == {d[k].f : k \in DOMAIN d}

\* Lines 177-207 with the three cutoffs computed.
KeepWith(es, daily_cutoff, weekly_cutoff, monthly_cutoff) ==
    {es[i].f : i \in {j \in 1..Len(es) : InDaily(es[j].ts, daily_cutoff)}}
    \cup DictPaths(WeeklyDict(es, Len(es), weekly_cutoff, daily_cutoff))
    \cup DictPaths(MonthlyDict(es, Len(es), monthly_cutoff, weekly_cutoff))

\* Lines 176-207: the set `keep` for the entries es at the instant n.
KeepSet(es, n) ==
    KeepWith(es, DailyCutoff(n), WeeklyCutoff(n), MonthlyCutoff(n))

\* Variant: the delete loop iterates over `files` instead of `entries`.
DeleteLoopOverFiles(fs, es) == fs

\* Line 210: the paths the delete loop iterates over.
DeleteLoopItems(fs, es) == [i \in 1..Len(es) |-> es[i].f]

\* Variant: if f in keep
ShouldDeleteInverted(f, k) == f \in k

\* Line 211: if f not in keep
ShouldDelete(f, k) == f \notin k

\* Variant: no handler, the exception leaves rotate_backups.
AfterUnlinkErrorAbort(i) == [pc |-> "crashed", idx |-> i]

\* Lines 215-216: the handler logs and the loop goes on with the next entry.
AfterUnlinkError(i) == [pc |-> "delete", idx |-> i + 1]


----------------------------------------------------------------------------
(* Inputs: database names, clock readings, directory contents.             *)

DbS == <<"s">>
DbSE == <<"s", "_", "e">>
DBNames == {DbS, DbSE}

ClockStarts == {Dt(2025, 4, 10, 0, 0, 0, 0), Dt(2025, 4, 10, 0, 0, 0, 500000)}

\* How long writing the archive may take (create_zip, line 140): no time,
\* one second, seven days, ninety-one days.
ZipDurations == {[days |-> 0, secs |-> 0], [days |-> 0, secs |-> 1],
                 [days |-> 7, secs |-> 0], [days |-> 91, secs |-> 0]}

\* The time between the return of one rotate_backups call and the next.
Pauses == {[days |-> 0, secs |-> 0], [days |-> 7, secs |-> 0]}

\* Archive instants around the tier boundaries of 2025-04-10 00:00:00.
PoolInstants ==
    {Dt(2025, 4, 11, 2, 0, 0, 0),      \* later than the clock
     Dt(2025, 4, 3, 0, 0, 0, 0),       \* exactly 7 days old
     Dt(2025, 4, 2, 23, 59, 59, 0),    \* weekly, ISO week 14
     Dt(2025, 3, 31, 2, 0, 0, 0),      \* weekly, ISO week 14
     Dt(2025, 3, 13, 0, 0, 0, 0),      \* exactly 28 days old
     Dt(2025, 3, 12, 23, 59, 59, 0),   \* monthly, March
     Dt(2025, 3, 5, 2, 0, 0, 0),       \* monthly, March
     Dt(2025, 1, 10, 0, 0, 0, 0),      \* exactly 90 days old
     Dt(2025, 1, 9, 23, 59, 59, 0)}    \* older than 90 days

\* An archive as create_zip names it.
ArchiveName(d, t) == GetBackupName(d, t) \o ZipExt

Pool ==
    {ArchiveName(DbS, t) : t \in PoolInstants}
    \cup {\* an archive of the database s_e
          ArchiveName(DbSE, Dt(2025, 4, 2, 23, 59, 59, 0)),
          \* s_202542_235959.zip: strptime reads 2025-04-02 23:59:59
          <<"s", "_", "2", "0", "2", "5", "4", "2", "_",
            "2", "3", "5", "9", "5", "9">> \o ZipExt,
          \* s_20250230_020000.zip: no such day
          <<"s", "_", "2", "0", "2", "5", "0", "2", "3", "0", "_",
            "0", "2", "0", "0", "0", "0">> \o ZipExt}

NoPrev == [valid |-> FALSE, keep |-> {}, del |-> {}, failed |-> {},
           now |-> None, dir |-> {}]

CodecOff ==
    /\ cpc = "off"
    /\ cDb = <<>>
    /\ cInstant = None
    /\ cName = <<>>
    /\ cOut = None

Init ==
    /\ dir \in {S \in SUBSET Pool : Cardinality(S) <= MaxFiles}
    /\ db \in DBNames
    /\ clock \in ClockStarts
    /\ pc = "idle"
    /\ files = <<>>
    /\ entries = <<>>
    /\ now = None
    /\ keep = {}
    /\ idx = 0
    /\ attempted = {}
    /\ failed = {}
    /\ archive = <<>>
    /\ zipTime = None
    /\ run = 0
    /\ startDir = {}
    /\ prev = NoPrev
    /\ CodecOff

----------------------------------------------------------------------------
(* MAIN (lines 224-239) and BACKUP STEPS (lines 89-142).                   *)

rotVars == <<files, entries, now, keep, idx, attempted, failed, startDir, prev>>

\* main starts: Config.load, then the temporary directory is created.
MainStart ==
    /\ pc = "idle"
    /\ pc' = "dump"
    /\ UNCHANGED <<dir, db, clock, archive, zipTime, run, rotVars, codecVars>>

\* run_pg_dump, pg_dump returning 0.
RunPgDumpOk ==
    /\ pc = "dump"
    /\ pc' = "copy"
    /\ UNCHANGED <<dir, db, clock, archive, zipTime, run, rotVars, codecVars>>

\* run_pg_dump, pg_dump failing: sys.exit(1).
RunPgDumpFail ==
    /\ pc = "dump"
    /\ pc' = "dump_failed"
    /\ UNCHANGED <<dir, db, clock, archive, zipTime, run, rotVars, codecVars>>

\* copy_filestore, the filestore present.
CopyFilestoreOk ==
    /\ pc = "copy"
    /\ pc' = "zip"
    /\ UNCHANGED <<dir, db, clock, archive, zipTime, run, rotVars, codecVars>>

\* copy_filestore, the filestore missing: sys.exit(1).
CopyFilestoreMissing ==
    /\ pc = "copy"
    /\ pc' = "filestore_missing"
    /\ UNCHANGED <<dir, db, clock, archive, zipTime, run, rotVars, codecVars>>

\* create_zip: the name is taken from the clock (line 134), make_archive
\* writes <base_name>.zip into backup_dir (replacing a file of that name),
\* which takes some time.
CreateZip ==
    /\ pc = "zip"
    /\ zipTime' = clock
    /\ archive' = ArchiveName(db, clock)
    /\ dir' = dir \cup {ArchiveName(db, clock)}
    /\ \E d \in ZipDurations : clock' = PlusDelta(clock, d.days, d.secs)
    /\ pc' = "zipped"
    /\ UNCHANGED <<db, run, rotVars, codecVars>>

\* What a finished call leaves to compare the next one with.
Finished ==
    [valid |-> TRUE, keep |-> keep,
     del |-> {entries[i].f : i \in 1..Len(entries)} \ keep,
     failed |-> failed, now |-> now, dir |-> startDir]

\* rotate_backups is entered: from main (line 238), or called by another
\* caller in a directory main left earlier.
RotateEnter ==
    /\ pc \in {"idle", "zipped"}
    /\ run < MaxRuns
    /\ pc' = "rotate"
    /\ run' = run + 1
    /\ UNCHANGED <<dir, db, clock, archive, zipTime, rotVars, codecVars>>

\* Line 239: rotate_backups returned to main, which logs and ends.
MainFinish ==
    /\ pc = "done"
    /\ archive # <<>>
    /\ pc' = "exit"
    /\ UNCHANGED <<dir, db, clock, archive, zipTime, run, rotVars, codecVars>>

\* A caller of rotate_backups other than main calls it again, some time
\* after the previous call returned.
RotateAgain ==
    /\ pc = "done"
    /\ archive = <<>>
    /\ run < MaxRuns
    /\ pc' = "rotate"
    /\ run' = run + 1
    /\ prev' = Finished
    /\ files' = <<>>
    /\ entries' = <<>>
    /\ now' = None
    /\ keep' = {}
    /\ idx' = 0
    /\ attempted' = {}
    /\ failed' = {}
    /\ \E d \in Pauses : clock' = PlusDelta(clock, d.days, d.secs)
    /\ UNCHANGED <<dir, db, archive, zipTime, startDir, codecVars>>

Matching == {f \in dir : GlobMatch(f, db)}

\* Lines 160-163: no file matches the pattern.
RotateNoFiles ==
    /\ pc = "rotate"
    /\ Matching = {}
    /\ startDir' = dir
    /\ pc' = "done"
    /\ UNCHANGED <<dir, db, clock, archive, zipTime, run, files, entries,
                   now, keep, idx, attempted, failed, prev, codecVars>>

\* Lines 160-174: files match, none of the names parses.
RotateNoEntries ==
    /\ pc = "rotate"
    /\ Matching # {}
    /\ \E fs \in {SortPaths(listing) : listing \in Listings(Matching)} :
        /\ Entries(fs) = <<>>
        /\ files' = fs
    /\ startDir' = dir
    /\ pc' = "done"
    /\ UNCHANGED <<dir, db, clock, archive, zipTime, run, entries,
                   now, keep, idx, attempted, failed, prev, codecVars>>

\* Lines 160-207: list (in any order), sort, parse, read the clock,
\* compute keep.
RotateClassify ==
    /\ pc = "rotate"
    /\ Matching # {}
    /\ \E fs \in {SortPaths(listing) : listing \in Listings(Matching)} :
       \E es \in {Entries(fs)} :
        /\ es # <<>>
        /\ files' = fs
        /\ entries' = es
        /\ keep' = KeepSet(es, clock)
    /\ now' = clock
    /\ startDir' = dir
    /\ idx' = 1
    /\ pc' = "delete"
    /\ UNCHANGED <<dir, db, clock, archive, zipTime, run,
                   attempted, failed, prev, codecVars>>

Items == DeleteLoopItems(files, entries)

\* Lines 210-211: the entry is in keep.
DeleteSkip ==
    /\ pc = "delete"
    /\ idx <= Len(Items)
    /\ ~ShouldDelete(Items[idx], keep)
    /\ idx' = idx + 1
    /\ UNCHANGED <<dir, db, clock, pc, archive, zipTime, run, files,
                   entries, now, keep, attempted, failed, startDir, prev, codecVars>>

\* Lines 212-214: unlink succeeds.
UnlinkOk ==
    /\ pc = "delete"
    /\ idx <= Len(Items)
    /\ ShouldDelete(Items[idx], keep)
    /\ dir' = dir \ {Items[idx]}
    /\ attempted' = attempted \cup {Items[idx]}
    /\ idx' = idx + 1
    /\ UNCHANGED <<db, clock, pc, archive, zipTime, run, files,
                   entries, now, keep, failed, startDir, prev, codecVars>>

\* Lines 212-216: unlink raises, the exception is caught and logged.
UnlinkFail ==
    /\ pc = "delete"
    /\ idx <= Len(Items)
    /\ ShouldDelete(Items[idx], keep)
    /\ attempted' = attempted \cup {Items[idx]}
    /\ failed' = failed \cup {Items[idx]}
    /\ pc' = AfterUnlinkError(idx).pc
    /\ idx' = AfterUnlinkError(idx).idx
    /\ UNCHANGED <<dir, db, clock, archive, zipTime, run, files,
                   entries, now, keep, startDir, prev, codecVars>>

\* The delete loop is exhausted: rotate_backups returns.
RotateReturn ==
    /\ pc = "delete"
    /\ idx > Len(Items)
    /\ pc' = "done"
    /\ UNCHANGED <<dir, db, clock, archive, zipTime, run, files,
                   entries, now, keep, idx, attempted, failed, startDir, prev,
                   codecVars>>

Next ==
    \/ MainStart
    \/ RunPgDumpOk
    \/ RunPgDumpFail
    \/ CopyFilestoreOk
    \/ CopyFilestoreMissing
    \/ CreateZip
    \/ RotateEnter
    \/ MainFinish
    \/ RotateAgain
    \/ RotateNoFiles
    \/ RotateNoEntries
    \/ RotateClassify
    \/ DeleteSkip
    \/ UnlinkOk
    \/ UnlinkFail
    \/ RotateReturn

Spec == Init /\ [][Next]_vars


----------------------------------------------------------------------------
(* The codec on its own: get_backup_name followed by                       *)
(* parse_backup_timestamp, for database names with and without "." and     *)
(* for instants with and without a fraction of a second.                   *)

CodecNames ==
    {DbS, DbSE, <<"s", ".", "e">>, <<"s", ".">>, <<".", "s">>}

CodecInstants ==
    PoolInstants \cup ClockStarts
    \cup {Dt(2024, 2, 29, 23, 59, 59, 0), Dt(2025, 12, 31, 0, 0, 0, 0),
          Dt(2025, 11, 1, 2, 0, 0, 0), Dt(2026, 1, 1, 0, 0, 1, 0)}

CodecInit ==
    /\ dir = {}
    /\ db = <<>>
    /\ clock = None
    /\ pc = "off"
    /\ files = <<>>
    /\ entries = <<>>
    /\ now = None
    /\ keep = {}
    /\ idx = 0
    /\ attempted = {}
    /\ failed = {}
    /\ archive = <<>>
    /\ zipTime = None
    /\ run = 0
    /\ startDir = {}
    /\ prev = NoPrev
    /\ cpc = "start"
    /\ cDb \in CodecNames
    /\ cInstant \in CodecInstants
    /\ cName = <<>>
    /\ cOut = None

\* get_backup_name(cDb) with the clock reading cInstant.
CodecEncode ==
    /\ cpc = "start"
    /\ cName' = GetBackupName(cDb, cInstant)
    /\ cpc' = "encoded"
    /\ UNCHANGED <<mainVars, cDb, cInstant, cOut>>

\* parse_backup_timestamp of the encoded name.
CodecDecode ==
    /\ cpc = "encoded"
    /\ cOut' = ParseBackupTimestamp(cName)
    /\ cpc' = "decoded"
    /\ UNCHANGED <<mainVars, cDb, cInstant, cName>>

\* parse_backup_timestamp of the archive's file name, as line 167 calls it.
CodecDecodeArchive ==
    /\ cpc = "encoded"
    /\ cOut' = ParseBackupTimestamp(cName \o ZipExt)
    /\ cpc' = "decoded_archive"
    /\ UNCHANGED <<mainVars, cDb, cInstant, cName>>

NextCodec ==
    \/ CodecEncode
    \/ CodecDecode
    \/ CodecDecodeArchive

SpecCodec == CodecInit /\ [][NextCodec]_vars


----------------------------------------------------------------------------
(* Properties.                                                             *)

EntryFiles == {entries[i].f : i \in 1..Len(entries)}

\* rotate_backups has computed keep; rotate_backups has returned.
Classified == pc \in {"delete", "done", "exit"}
Returned == pc \in {"done", "exit"}

\* The tiers as the retention policy states them; c7, c28 and c90 are
\* now - 7 days, now - 28 days and now - 90 days.
DailyTier(ts, c7) == DtLeq(c7, ts)
WeeklyTier(ts, c28, c7) == DtLeq(c28, ts) /\ DtLess(ts, c7)
MonthlyTier(ts, c90, c28) == DtLeq(c90, ts) /\ DtLess(ts, c28)

\* The database an archive name <database>_<date>_<time>.<ext> belongs to:
\* everything before its last two "_" segments.
RECURSIVE JoinFirst(_, _)
JoinFirst(parts, k) ==
    IF k = 0 THEN <<>>
    ELSE IF k = 1 THEN parts[1]
    ELSE JoinFirst(parts, k - 1) \o <<"_">> \o parts[k]

OwnerOf(f) ==
    LET parts == Split(Stem(f), "_")
    IN  IF Len(parts) < 3 THEN <<>> ELSE JoinFirst(parts, Len(parts) - 2)

C2_OtherDatabasesUntouched ==
    \A f \in attempted : OwnerOf(f) = db

DailyKept(c7) ==
    \A i \in 1..Len(entries) :
        DailyTier(entries[i].ts, c7)
            => /\ entries[i].f \in keep
               /\ entries[i].f \notin attempted
               /\ entries[i].f \in dir

\* C3: every parsed entry with now - 7 days <= timestamp is in keep, has no
\* removal attempted and stays in the directory; this covers the entry
\* exactly 7 days old and entries dated later than now.
C3_DailyComplete ==
    (Returned /\ entries # <<>>) => DailyKept(MinusDays(now, 7))

\* C3 witness: a returned run kept an entry exactly 7 days old and an entry
\* dated later than now.
C3_Witness ==
    /\ Returned
    /\ \E i, j \in 1..Len(entries) :
        /\ entries[i].ts = MinusDays(now, 7)
        /\ DtLess(now, entries[j].ts)
        /\ {entries[i].f, entries[j].f} \subseteq keep \cap dir

\* The entries of the bucket of entry i: same tier, same bucket key.
WeeklyBucket(i, c28, c7) ==
    {j \in 1..Len(entries) :
        /\ WeeklyTier(entries[j].ts, c28, c7)
        /\ IsoYearWeek(entries[j].ts) = IsoYearWeek(entries[i].ts)}

MonthlyBucket(i, c90, c28) ==
    {j \in 1..Len(entries) :
        /\ MonthlyTier(entries[j].ts, c90, c28)
        /\ entries[j].ts.year = entries[i].ts.year
        /\ entries[j].ts.month = entries[i].ts.month}

\* Exactly one entry of bucket B is kept, it has the maximum timestamp of
\* B, and every other entry of B had its removal attempted (and is gone
\* unless that removal failed).
OneSurvivor(B) ==
    /\ Cardinality({j \in B : entries[j].f \in keep}) = 1
    /\ \A j \in B : entries[j].f \in keep
            => \A k \in B : DtLeq(entries[k].ts, entries[j].ts)
    /\ \A j \in B : entries[j].f \notin keep
            => /\ entries[j].f \in attempted
               /\ entries[j].f \in dir => entries[j].f \in failed

BucketsHaveOneSurvivor(c7, c28, c90) ==
    \A i \in 1..Len(entries) :
        /\ WeeklyTier(entries[i].ts, c28, c7)
            => OneSurvivor(WeeklyBucket(i, c28, c7))
        /\ MonthlyTier(entries[i].ts, c90, c28)
            => OneSurvivor(MonthlyBucket(i, c90, c28))

\* C4: in every occupied weekly bucket (ISO year, ISO week) and monthly
\* bucket (year, month) exactly one entry is kept, one with the maximum
\* timestamp of the bucket; the others are deleted, also when several
\* entries share the maximum timestamp.
C4_BucketUnique ==
    (Returned /\ entries # <<>>)
        => BucketsHaveOneSurvivor(MinusDays(now, 7), MinusDays(now, 28),
                                  MinusDays(now, 90))

\* C4 witness: two weekly entries with the identical timestamp, one kept
\* and the other removed.
C4_Witness ==
    /\ Returned
    /\ \E i, j \in 1..Len(entries) :
        /\ i # j
        /\ WeeklyTier(entries[i].ts, MinusDays(now, 28), MinusDays(now, 7))
        /\ entries[i].ts = entries[j].ts
        /\ entries[i].f \in keep
        /\ entries[j].f \in attempted
        /\ entries[j].f \notin dir

TiersDisjoint(dc, wc, mc, c90) ==
    \A i \in 1..Len(entries) :
        LET ts == entries[i].ts
            d == InDaily(ts, dc)
            w == InWeekly(ts, wc, dc)
            m == InMonthly(ts, mc, wc)
        IN  /\ ~(d /\ w) /\ ~(d /\ m) /\ ~(w /\ m)
            /\ DtLess(ts, c90)
                => /\ ~d /\ ~w /\ ~m
                   /\ entries[i].f \notin keep
                   /\ entries[i].f \in attempted

\* C5: the three tier conditions of the code hold for at most one tier per
\* entry; an entry with timestamp < now - 90 days satisfies none, is never
\* in keep and always has its removal attempted.
C5_TierPartition ==
    (Returned /\ entries # <<>>)
        => TiersDisjoint(DailyCutoff(now), WeeklyCutoff(now),
                         MonthlyCutoff(now), MinusDays(now, 90))

\* C5 witness: a returned run removed an entry older than 90 days and kept
\* the entry exactly 90 days old.
C5_Witness ==
    /\ Returned
    /\ \E i, j \in 1..Len(entries) :
        /\ DtLess(entries[i].ts, MinusDays(now, 90))
        /\ entries[i].f \in attempted
        /\ entries[i].f \notin dir
        /\ entries[j].ts = MinusDays(now, 90)
        /\ entries[j].f \in keep

\* C6: a second run at the same instant, after a run all of whose removals
\* succeeded and with no archive added in between, attempts no removal;
\* its keep set is the set of parsed entries present after the first run.
C6_Idempotent ==
    (/\ Returned
     /\ prev.valid
     /\ prev.failed = {}
     /\ now = prev.now)
        => (attempted = {} /\ keep = EntryFiles)

\* C6 witness: the second run has returned after a first run that removed
\* an archive and kept another one, at the same instant.
C6_Witness ==
    /\ Returned
    /\ prev.valid
    /\ prev.failed = {}
    /\ prev.del # {}
    /\ prev.keep # {}
    /\ now = prev.now
    /\ now # None

\* C7: two runs over the same set of names at the same instant compute the
\* same keep set and the same delete set, in whatever order the directory
\* is listed, also when entries of one bucket share a timestamp.
C7_Deterministic ==
    (/\ Returned
     /\ prev.valid
     /\ startDir = prev.dir
     /\ now = prev.now)
        => (keep = prev.keep /\ EntryFiles \ keep = prev.del)

\* C7 witness: a second run over the unchanged directory, at the same
\* instant, with two entries of one weekly or monthly bucket carrying the
\* identical timestamp, one of them kept and the other not.
C7_Witness ==
    /\ Returned
    /\ prev.valid
    /\ startDir = prev.dir
    /\ now = prev.now
    /\ \E i, j \in 1..Len(entries) :
        /\ i # j
        /\ entries[i].ts = entries[j].ts
        /\ ~DailyTier(entries[i].ts, MinusDays(now, 7))
        /\ entries[i].f \in keep
        /\ entries[j].f \notin keep

\* C8: a failing removal does not end the run: the run stays in the delete
\* loop or returns, removal is attempted for every entry outside keep, a
\* file whose removal failed is still present, a file whose removal
\* succeeded is gone, and no file of keep is removed.
C8_BestEffortDelete ==
    /\ failed # {} => Classified
    /\ Returned => attempted = EntryFiles \ keep
    /\ failed \subseteq dir
    /\ (attempted \ failed) \cap dir = {}
    /\ Classified => keep \subseteq dir

\* C8 witness: a returned run in which one removal failed, a removal later
\* in the loop succeeded, and an entry of keep is still present.
C8_Witness ==
    /\ Returned
    /\ keep # {}
    /\ \E f \in failed : \E g \in attempted \ failed : StrLess(f, g)

\* C9 (as claimed): for any database name without "/" and any whole-second
\* instant, decoding the encoded name returns that instant.
C9_RoundTripAnyName ==
    (cpc = "decoded" /\ cInstant.microsecond = 0) => cOut = cInstant

\* C9 (amended): for any database name that contains neither "/" nor "."
\* and any whole-second instant, decoding the encoded name returns that
\* instant.
C9_RoundTripDotFree ==
    (/\ cpc = "decoded"
     /\ cInstant.microsecond = 0
     /\ \A i \in 1..Len(cDb) : cDb[i] # ".")
        => cOut = cInstant

\* C9 witness: the name of a database with an underscore in its name,
\* encoded at a whole-second instant, has been decoded to that instant.
C9_Witness ==
    /\ cpc = "decoded"
    /\ cDb = DbSE
    /\ cInstant.microsecond = 0
    /\ cOut = cInstant

\* C10 (as claimed): with a clock that does not go backwards, the archive
\* main created is in keep of the rotation that follows and is still
\* present when main finishes.
C10_NewArchiveSurvives ==
    (archive # <<>> /\ Returned) => (archive \in keep /\ archive \in dir)

\* C10 (amended): if rotation reads the clock no more than 7 days after
\* the timestamp in the archive's name, the archive main created is in
\* keep of the rotation that follows and is still present when main
\* finishes.  The clock stands still from rotation's reading of it until
\* main exits, so `clock` is that reading.
C10_RecentArchiveSurvives ==
    (/\ archive # <<>>
     /\ Returned
     /\ DtLeq(MinusDays(clock, 7), WholeSecond(zipTime)))
        => (archive \in keep /\ archive \in dir)

\* C10 witness: main has finished exactly 7 days after it named the
\* archive; the archive was kept while another one was removed.
C10_Witness ==
    /\ pc = "exit"
    /\ now = PlusDelta(zipTime, 7, 0)
    /\ archive \in keep \cap dir
    /\ attempted \ failed # {}


====
